---- MODULE Spec2Model ----
(***************************************************************************)
(* Change planning and execution of the rename tool.                       *)
(*                                                                         *)
(* Text is a sequence of symbols.  A symbol is one character of an         *)
(* identifier ("a", "b", "A", ...) or one piece of punctuation that the    *)
(* patterns of the generators treat as a unit ("(OldName=\"", "/Script/"). *)
(* A path is a sequence of components, a component a sequence of symbols   *)
(* whose last symbol may be an extension (".Build.cs").                    *)
(***************************************************************************)
EXTENDS Integers, Sequences, FiniteSets, TLC

VARIABLES fs, ctx, plan, idx, pc, pending, resolved, hist

vars == <<fs, ctx, plan, idx, pc, pending, resolved, hist>>

-----------------------------------------------------------------------------
(* Bounds of the model *)

MaxRenames == 2
MaxTextLen == 3
MaxIniOps == 3
MaxCppFiles == 2

-----------------------------------------------------------------------------
(* Sequences *)

Front(s) == SubSeq(s, 1, Len(s) - 1)

Last(s) == s[Len(s)]

RECURSIVE Concat(_)
Concat(ss) == IF ss = <<>> THEN <<>> ELSE Head(ss) \o Concat(Tail(ss))

StartsWith(s, prefix) ==
  Len(prefix) <= Len(s) /\ SubSeq(s, 1, Len(prefix)) = prefix

(* str::contains *)
Contains(text, tok) ==
  \E i \in 1..(Len(text) - Len(tok) + 1) : SubSeq(text, i, i + Len(tok) - 1) = tok

-----------------------------------------------------------------------------
(* Names and characters *)

Upper(c) == IF c = "a" THEN "A" ELSE IF c = "b" THEN "B" ELSE c

to_uppercase(name) == [i \in 1..Len(name) |-> Upper(name[i])]

Newline == "\n"

Whitespace == {" ", "\t", Newline}

-----------------------------------------------------------------------------
(* Patterns: a sequence of symbols, each a literal or one of these. *)

LazyCapOld == "(?P<old>.+?)"
LazyCapImpl == "(?P<impl>.+?)"
LazyAny == ".+?"
GreedyAny == ".+"
WsStar == "\\s*"
RefOld == "$old"

NoMatch == [ok |-> FALSE, end |-> 0, cap |-> <<>>]

RECURSIVE DotRun(_, _)
DotRun(text, i) ==
  IF i > Len(text) \/ text[i] = Newline THEN 0 ELSE 1 + DotRun(text, i + 1)

RECURSIVE WsRun(_, _)
WsRun(text, i) ==
  IF i > Len(text) \/ text[i] \notin Whitespace THEN 0 ELSE 1 + WsRun(text, i + 1)

RECURSIVE MatchFrom(_, _, _, _)
RECURSIVE TryLazy(_, _, _, _, _)
RECURSIVE TryGreedy(_, _, _, _, _, _)

(* The match of pat[k..] at position i of text, by the priorities of a
   leftmost-first engine: a lazy repetition takes the shortest run that
   lets the rest match, a greedy one the longest. *)
MatchFrom(pat, k, text, i) ==
  IF k > Len(pat) THEN [ok |-> TRUE, end |-> i, cap |-> <<>>]
  ELSE IF pat[k] \in {LazyCapOld, LazyCapImpl, LazyAny} THEN TryLazy(pat, k, text, i, 1)
  ELSE IF pat[k] = GreedyAny THEN TryGreedy(pat, k, text, i, DotRun(text, i), 1)
  ELSE IF pat[k] = WsStar THEN TryGreedy(pat, k, text, i, WsRun(text, i), 0)
  ELSE IF i <= Len(text) /\ text[i] = pat[k] THEN MatchFrom(pat, k + 1, text, i + 1)
  ELSE NoMatch

TryLazy(pat, k, text, i, n) ==
  IF n > DotRun(text, i) THEN NoMatch
  ELSE LET r == MatchFrom(pat, k + 1, text, i + n)
       IN  IF r.ok
           THEN IF pat[k] \in {LazyCapOld, LazyCapImpl}
                THEN [r EXCEPT !.cap = SubSeq(text, i, i + n - 1)]
                ELSE r
           ELSE TryLazy(pat, k, text, i, n + 1)

TryGreedy(pat, k, text, i, n, least) ==
  IF n < least THEN NoMatch
  ELSE LET r == MatchFrom(pat, k + 1, text, i + n)
       IN  IF r.ok THEN r ELSE TryGreedy(pat, k, text, i, n - 1, least)

(* The replacement text of one match: $old stands for the capture. *)
RECURSIVE Expand(_, _)
Expand(rep, cap) ==
  IF rep = <<>> THEN <<>>
  ELSE (IF Head(rep) = RefOld THEN cap ELSE <<Head(rep)>>) \o Expand(Tail(rep), cap)

(* Every non-overlapping match, leftmost first, replaced. *)
RECURSIVE ReplaceFrom(_, _, _, _)
ReplaceFrom(text, pat, rep, i) ==
  IF i > Len(text) THEN <<>>
  ELSE LET m == MatchFrom(pat, 1, text, i)
       IN  IF m.ok /\ m.end > i
           THEN Expand(rep, m.cap) \o ReplaceFrom(text, pat, rep, m.end)
           ELSE <<text[i]>> \o ReplaceFrom(text, pat, rep, i + 1)

ReplaceAll(text, pat, rep) == ReplaceFrom(text, pat, rep, 1)

-----------------------------------------------------------------------------
(* Paths *)

Extensions == {".Build.cs", ".Target.cs", ".uproject", ".cpp", ".h", ".ini"}

Join(path, component) == Append(path, component)

(* Path::with_extension on a path whose file name is an identifier or
   already carries one extension *)
WithExtension(path, ext) ==
  LET name == Last(path)
      stem == IF name # <<>> /\ Last(name) \in Extensions THEN Front(name) ELSE name
  IN  Append(Front(path), Append(stem, ext))

(* Path::with_file_name *)
WithFileName(path, name) ==
  IF path = <<>> THEN <<name>> ELSE Append(Front(path), name)

(* Path::strip_prefix: <<rest>> or <<>> for Err *)
StripPrefix(path, prefix) ==
  IF StartsWith(path, prefix)
  THEN <<SubSeq(path, Len(prefix) + 1, Len(path))>>
  ELSE <<>>

(* Path::extension *)
Extension(path) ==
  IF path # <<>> /\ Last(path) # <<>> /\ Last(Last(path)) \in Extensions
  THEN Last(Last(path)) ELSE ""

SourceDir == <<"Source">>
ConfigDir == <<"Config">>
DefaultEngineIni == <<"DefaultEngine", ".ini">>
DefaultGameIni == <<"DefaultGame", ".ini">>

-----------------------------------------------------------------------------
(* The Change variants.  One record shape serves all four; the fields a
   variant does not have stay empty. *)

NoFields ==
  [kind |-> "", path |-> <<>>, from |-> <<>>, to |-> <<>>, pattern |-> <<>>,
   replacement |-> <<>>, section |-> "", key |-> "", value |-> <<>>]

RenameFile(from, to) ==
  [NoFields EXCEPT !.kind = "RenameFile", !.from = from, !.to = to]

ReplaceInFile(path, pattern, replacement) ==
  [NoFields EXCEPT !.kind = "ReplaceInFile", !.path = path,
                   !.pattern = pattern, !.replacement = replacement]

AppendIniEntry(path, section, key, value) ==
  [NoFields EXCEPT !.kind = "AppendIniEntry", !.path = path,
                   !.section = section, !.key = key, !.value = value]

SetIniEntry(path, section, key, value) ==
  [NoFields EXCEPT !.kind = "SetIniEntry", !.path = path,
                   !.section = section, !.key = key, !.value = value]

(* The path a change addresses when it is applied *)
Addressed(c) == IF c.kind = "RenameFile" THEN c.from ELSE c.path

IsEdit(c) == c.kind \in {"ReplaceInFile", "AppendIniEntry", "SetIniEntry"}

-----------------------------------------------------------------------------
(* The file system: the entries of the project tree in the order a
   directory walk yields them (a directory before what it holds). *)

Dir(path) ==
  [path |-> path, dir |-> TRUE, readable |-> TRUE, text |-> <<>>, secs |-> <<>>]

TextFile(path, text) ==
  [path |-> path, dir |-> FALSE, readable |-> TRUE, text |-> text, secs |-> <<>>]

IniFile(path, secs) ==
  [path |-> path, dir |-> FALSE, readable |-> TRUE, text |-> <<>>, secs |-> secs]

Exists(fsys, path) == \E i \in 1..Len(fsys) : fsys[i].path = path

IndexOf(fsys, path) == CHOOSE i \in 1..Len(fsys) : fsys[i].path = path

Lookup(fsys, path) == fsys[IndexOf(fsys, path)]

(* A read that yields the bytes of any file, text or not *)
ReadOk_any(e) == ~e.dir

(* fs::read_to_string(path).is_ok() *)
ReadOk(e) == ~e.dir /\ e.readable

(* WalkDir::new(root): root itself, then everything under it *)
WalkDir(fsys, root) == SelectSeq(fsys, LAMBDA e : StartsWith(e.path, root))

(* fs::read_dir(dir): the entries directly inside dir *)
ReadDir(fsys, dir) ==
  SelectSeq(fsys, LAMBDA e : StartsWith(e.path, dir) /\ Len(e.path) = Len(dir) + 1)

-----------------------------------------------------------------------------
(* Configuration files: an ordered sequence of sections, each an ordered
   sequence of key=value lines. *)

Section(name, lines) == [name |-> name, lines |-> lines]

Line(key, value) == [key |-> key, value |-> value]

(* The first section of that name, 0 if there is none *)
SectionIndex(secs, name) ==
  IF \E i \in 1..Len(secs) : secs[i].name = name
  THEN CHOOSE i \in 1..Len(secs) :
         secs[i].name = name /\ \A j \in 1..(i - 1) : secs[j].name # name
  ELSE 0

(* The first line of that key, 0 if there is none *)
KeyIndex(lines, key) ==
  IF \E i \in 1..Len(lines) : lines[i].key = key
  THEN CHOOSE i \in 1..Len(lines) :
         lines[i].key = key /\ \A j \in 1..(i - 1) : lines[j].key # key
  ELSE 0

(* Locate the section, creating it at the end of the file if absent, then
   append the line whatever the section already holds. *)
AppendIni(secs, section, key, value) ==
  LET s == SectionIndex(secs, section)
  IN  IF s = 0
      THEN Append(secs, Section(section, <<Line(key, value)>>))
      ELSE [secs EXCEPT ![s].lines = Append(@, Line(key, value))]

(* Locate or create the section; replace the value of the first line with
   the key if there is one, else append a line at the section's end. *)
SetIni(secs, section, key, value) ==
  LET s == SectionIndex(secs, section)
  IN  IF s = 0
      THEN Append(secs, Section(section, <<Line(key, value)>>))
      ELSE LET k == KeyIndex(secs[s].lines, key)
           IN  IF k = 0
               THEN [secs EXCEPT ![s].lines = Append(@, Line(key, value))]
               ELSE [secs EXCEPT ![s].lines[k].value = value]

(* The values under a key of a section, in file order *)
ValuesOf(secs, section, key) ==
  LET s == SectionIndex(secs, section)
  IN  IF s = 0 THEN <<>>
      ELSE LET kept == SelectSeq(secs[s].lines, LAMBDA l : l.key = key)
           IN  [i \in 1..Len(kept) |-> kept[i].value]

(* Pattern substitution over a configuration file: no pattern of the
   generators matches a line break, a key or a section header, so the
   matches lie inside the values. *)
ReplaceInSecs(secs, pat, rep) ==
  [s \in 1..Len(secs) |->
     [secs[s] EXCEPT !.lines =
        [k \in 1..Len(secs[s].lines) |->
           [secs[s].lines[k] EXCEPT !.value = ReplaceAll(@, pat, rep)]]]]

-----------------------------------------------------------------------------
(* Applying one change.  The result says whether the step succeeded and
   gives the tree after it. *)

Failed(fsys) == [ok |-> FALSE, fs |-> fsys]

Done(fsys) == [ok |-> TRUE, fs |-> fsys]

MovePath(path, from, to) ==
  IF StartsWith(path, from) THEN to \o SubSeq(path, Len(from) + 1, Len(path)) ELSE path

ApplyRenameFile(fsys, c) ==
  IF ~Exists(fsys, c.from) THEN Failed(fsys)
  ELSE IF c.from = c.to THEN Done(fsys)
  ELSE IF Len(c.to) > 1 /\ ~Exists(fsys, Front(c.to)) THEN Failed(fsys)
  ELSE IF Exists(fsys, c.to) /\ (Lookup(fsys, c.to).dir \/ Lookup(fsys, c.from).dir)
       THEN Failed(fsys)
  ELSE LET kept == SelectSeq(fsys, LAMBDA e : e.path # c.to)
       IN  Done([i \in 1..Len(kept) |->
                   [kept[i] EXCEPT !.path = MovePath(@, c.from, c.to)]])

(* ReplaceInFile raising an error when the pattern matches nowhere *)
ApplyReplaceInFile_strict(fsys, c) ==
  IF ~Exists(fsys, c.path) THEN Failed(fsys)
  ELSE LET i == IndexOf(fsys, c.path)
       IN  IF ~ReadOk(fsys[i]) THEN Failed(fsys)
           ELSE IF /\ ReplaceAll(fsys[i].text, c.pattern, c.replacement) = fsys[i].text
                   /\ ReplaceInSecs(fsys[i].secs, c.pattern, c.replacement)
                        = fsys[i].secs
           THEN Failed(fsys)
           ELSE Done([fsys EXCEPT
                  ![i].text = ReplaceAll(@, c.pattern, c.replacement),
                  ![i].secs = ReplaceInSecs(@, c.pattern, c.replacement)])

ApplyReplaceInFile(fsys, c) ==
  IF ~Exists(fsys, c.path) THEN Failed(fsys)
  ELSE LET i == IndexOf(fsys, c.path)
       IN  IF ~ReadOk(fsys[i]) THEN Failed(fsys)
           ELSE Done([fsys EXCEPT
                  ![i].text = ReplaceAll(@, c.pattern, c.replacement),
                  ![i].secs = ReplaceInSecs(@, c.pattern, c.replacement)])

ApplyAppendIniEntry(fsys, c) ==
  IF ~Exists(fsys, c.path) THEN Failed(fsys)
  ELSE LET i == IndexOf(fsys, c.path)
       IN  IF ~ReadOk(fsys[i]) THEN Failed(fsys)
           ELSE Done([fsys EXCEPT
                  ![i].secs = AppendIni(@, c.section, c.key, c.value)])

ApplySetIniEntry(fsys, c) ==
  IF ~Exists(fsys, c.path) THEN Failed(fsys)
  ELSE LET i == IndexOf(fsys, c.path)
       IN  IF ~ReadOk(fsys[i]) THEN Failed(fsys)
           ELSE Done([fsys EXCEPT
                  ![i].secs = SetIni(@, c.section, c.key, c.value)])

ApplyChange(fsys, c) ==
  IF c.kind = "RenameFile" THEN ApplyRenameFile(fsys, c)
  ELSE IF c.kind = "ReplaceInFile" THEN ApplyReplaceInFile(fsys, c)
  ELSE IF c.kind = "AppendIniEntry" THEN ApplyAppendIniEntry(fsys, c)
  ELSE ApplySetIniEntry(fsys, c)

-----------------------------------------------------------------------------
(* Module rename: workflows/rename_module/changeset.rs *)

Quoted(name) == <<"\"">> \o name \o <<"\"">>

Script(name) == <<"/Script/">> \o name

ApiToken(name) == Append(to_uppercase(name), "_API")

(* find_mod_implementation keeping the last file the walk meets *)
find_mod_implementation_last(fsys, mod_root) ==
  LET found == SelectSeq(WalkDir(fsys, mod_root),
                 LAMBDA e : /\ ~e.dir
                            /\ Extension(e.path) = ".cpp"
                            /\ ReadOk(e)
                            /\ Contains(e.text, <<"_MODULE">>))
  IN  IF found = <<>> THEN <<>> ELSE <<found[Len(found)].path>>

(* The first .cpp file under the module root whose text holds "_MODULE":
   <<path>>, or <<>> for None *)
find_mod_implementation(fsys, mod_root) ==
  LET found == SelectSeq(WalkDir(fsys, mod_root),
                 LAMBDA e : /\ ~e.dir
                            /\ Extension(e.path) = ".cpp"
                            /\ ReadOk(e)
                            /\ Contains(e.text, <<"_MODULE">>))
  IN  IF found = <<>> THEN <<>> ELSE <<found[1].path>>

(* (?P<macro>IMPLEMENT_(GAME_|PRIMARY_GAME_)?MODULE)\((?P<impl>.+?),
   as its three alternatives *)
MacroForms == {<<"IMPLEMENT", "_MODULE">>,
               <<"IMPLEMENT", "_GAME", "_MODULE">>,
               <<"IMPLEMENT", "_PRIMARY_GAME", "_MODULE">>}

MacroPattern(macro) == macro \o <<"(", LazyCapImpl, ",">>

(* Regex::captures: the leftmost match; ok is FALSE where the source's
   unwrap panics *)
MacroCaptures(content) ==
  LET hits == {i \in 1..Len(content) :
                 \E m \in MacroForms : MatchFrom(MacroPattern(m), 1, content, i).ok}
  IN  IF hits = {} THEN [ok |-> FALSE, macro |-> <<>>, impl |-> <<>>]
      ELSE LET i == CHOOSE h \in hits : \A g \in hits : h <= g
               m == CHOOSE f \in MacroForms : MatchFrom(MacroPattern(f), 1, content, i).ok
           IN  [ok |-> TRUE, macro |-> m,
                impl |-> MatchFrom(MacroPattern(m), 1, content, i).cap]

(* update_mod_implementation writing the two-argument form whatever the
   macro *)
update_mod_implementation_two_arguments(fsys, implementation_file, new_name) ==
  LET e == Lookup(fsys, implementation_file)
      captures == MacroCaptures(e.text)
  IN  IF ~ReadOk(e) \/ ~captures.ok THEN <<>>
      ELSE <<ReplaceInFile(
               implementation_file,
               <<"_MODULE", "(", GreedyAny, ")">>,
               <<"_MODULE", "(">> \o captures.impl \o <<",", " ">> \o new_name
                 \o <<")">>)>>

(* The change pushed for the implementation file: <<change>>, or <<>>
   when the captures panic *)
update_mod_implementation(fsys, implementation_file, new_name) ==
  LET e == Lookup(fsys, implementation_file)
      captures == MacroCaptures(e.text)
  IN  IF ~ReadOk(e) \/ ~captures.ok THEN <<>>
      ELSE <<ReplaceInFile(
               implementation_file,
               <<"_MODULE", "(", GreedyAny, ")">>,
               IF captures.macro = <<"IMPLEMENT", "_PRIMARY_GAME", "_MODULE">>
               THEN <<"_MODULE", "(">> \o captures.impl \o <<",", " ">> \o new_name
                      \o <<",", " ", "\"">> \o new_name \o <<"\"", ")">>
               ELSE <<"_MODULE", "(">> \o captures.impl \o <<",", " ">> \o new_name
                      \o <<")">>)>>

(* update_existing_redirects writing the old module path where the
   captured name belongs *)
update_existing_redirects_drops_capture(project_root, old_name, new_name) ==
  ReplaceInFile(
    Join(Join(project_root, ConfigDir), DefaultEngineIni),
    <<"(OldName=\"", LazyCapOld, "\",", WsStar, "NewName=\"">> \o Script(old_name)
      \o <<"\")">>,
    <<"(OldName=\"">> \o Script(old_name) \o <<"\",", " ", "NewName=\"">>
      \o Script(new_name) \o <<"\")">>)

(* update_existing_redirects looking for entries that already name the
   new module *)
update_existing_redirects_stale(project_root, old_name, new_name) ==
  ReplaceInFile(
    Join(Join(project_root, ConfigDir), DefaultEngineIni),
    <<"(OldName=\"", LazyCapOld, "\",", WsStar, "NewName=\"">> \o Script(new_name)
      \o <<"\")">>,
    <<"(OldName=\"", RefOld, "\",", " ", "NewName=\"">> \o Script(new_name)
      \o <<"\")">>)

update_existing_redirects(project_root, old_name, new_name) ==
  ReplaceInFile(
    Join(Join(project_root, ConfigDir), DefaultEngineIni),
    <<"(OldName=\"", LazyCapOld, "\",", WsStar, "NewName=\"">> \o Script(old_name)
      \o <<"\")">>,
    <<"(OldName=\"", RefOld, "\",", " ", "NewName=\"">> \o Script(new_name)
      \o <<"\")">>)

(* append_mod_redirect built with the upsert variant *)
append_mod_redirect_upsert(project_root, old_name, new_name) ==
  SetIniEntry(
    Join(Join(project_root, ConfigDir), DefaultEngineIni),
    "CoreRedirects",
    "+PackageRedirects",
    <<"(OldName=\"">> \o Script(old_name) \o <<"\",", "NewName=\"">>
      \o Script(new_name) \o <<"\")">>)

append_mod_redirect(project_root, old_name, new_name) ==
  AppendIniEntry(
    Join(Join(project_root, ConfigDir), DefaultEngineIni),
    "CoreRedirects",
    "+PackageRedirects",
    <<"(OldName=\"">> \o Script(old_name) \o <<"\",", "NewName=\"">>
      \o Script(new_name) \o <<"\")">>)

replace_mod_reference_in_target(target, old_name, new_name) ==
  ReplaceInFile(target, Quoted(old_name), Quoted(new_name))

(* rename_build_file naming the old build file as its destination *)
rename_build_file_kept(mod_root, old_project_name, new_project_name) ==
  RenameFile(WithExtension(Join(mod_root, old_project_name), ".Build.cs"),
             WithExtension(Join(mod_root, old_project_name), ".Build.cs"))

rename_build_file(mod_root, old_project_name, new_project_name) ==
  RenameFile(WithExtension(Join(mod_root, old_project_name), ".Build.cs"),
             WithExtension(Join(mod_root, new_project_name), ".Build.cs"))

(* rename_build_class with pattern and replacement exchanged *)
rename_build_class_swapped(mod_root, old_project_name, new_project_name) ==
  ReplaceInFile(WithExtension(Join(mod_root, old_project_name), ".Build.cs"),
                new_project_name, old_project_name)

rename_build_class(mod_root, old_project_name, new_project_name) ==
  ReplaceInFile(WithExtension(Join(mod_root, old_project_name), ".Build.cs"),
                old_project_name, new_project_name)

(* Every entry under the module root that reads as text holding the
   <NAME>_API token, as a path relative to the module root *)
get_files_including_api_macro(fsys, mod_root, mod_name) ==
  LET found == SelectSeq(WalkDir(fsys, mod_root),
                 LAMBDA e : ReadOk(e) /\ Contains(e.text, ApiToken(mod_name)))
      rel == [i \in 1..Len(found) |-> StripPrefix(found[i].path, mod_root)]
  IN  Concat(rel)

replace_api_macro_in_header_file(mod_root, header, old_project_name, new_project_name) ==
  ReplaceInFile(mod_root \o header,
                ApiToken(old_project_name), ApiToken(new_project_name))

(* rename_source_subfolder joining the new name onto the module root *)
rename_source_subfolder_joined(mod_root, new_project_name) ==
  RenameFile(mod_root, Join(mod_root, new_project_name))

rename_source_subfolder(mod_root, new_project_name) ==
  RenameFile(mod_root, WithFileName(mod_root, new_project_name))

(* find_target_file_names taking a Source directory it cannot read for an
   empty one *)
find_target_file_names_lenient(fsys, project_root) ==
  LET source == Join(project_root, SourceDir)
      hits == SelectSeq(ReadDir(fsys, source),
                LAMBDA e : Extension(e.path) = ".Target.cs")
  IN  IF ~Exists(fsys, source) \/ ~Lookup(fsys, source).dir
         \/ ~Lookup(fsys, source).readable
      THEN [ok |-> TRUE, names |-> <<>>]
      ELSE [ok |-> TRUE,
            names |-> [i \in 1..Len(hits) |-> Front(Last(hits[i].path))]]

(* The stems of the *.Target.cs entries of <root>/Source, in directory
   order; ok is FALSE where the source's expect panics *)
find_target_file_names(fsys, project_root) ==
  LET source == Join(project_root, SourceDir)
  IN  IF ~Exists(fsys, source) \/ ~Lookup(fsys, source).dir
         \/ ~Lookup(fsys, source).readable
      THEN [ok |-> FALSE, names |-> <<>>]
      ELSE LET hits == SelectSeq(ReadDir(fsys, source),
                         LAMBDA e : Extension(e.path) = ".Target.cs")
           IN  [ok |-> TRUE,
                names |-> [i \in 1..Len(hits) |-> Front(Last(hits[i].path))]]

replace_mod_reference_in_project_descriptor(project_root, project_name, old_name, new_name) ==
  ReplaceInFile(WithExtension(Join(project_root, project_name), ".uproject"),
                Quoted(old_name), Quoted(new_name))

(* generate_changeset: the plan, or ok = FALSE when generation panics *)
generate_changeset(fsys, context) ==
  LET project_root == context.project_root
      project_name == context.project_name
      mod_root == context.mod_root
      old_name == context.mod_name
      new_name == context.target_name
      implementation_file == find_mod_implementation(fsys, mod_root)
      implementation ==
        IF implementation_file = <<>> THEN <<>>
        ELSE update_mod_implementation(fsys, implementation_file[1], new_name)
      headers == get_files_including_api_macro(fsys, mod_root, old_name)
      targets == find_target_file_names(fsys, project_root)
  IN  IF (implementation_file # <<>> /\ implementation = <<>>) \/ ~targets.ok
      THEN [ok |-> FALSE, changes |-> <<>>]
      ELSE [ok |-> TRUE,
            changes |->
              <<rename_build_class(mod_root, old_name, new_name),
                rename_build_file(mod_root, old_name, new_name)>>
              \o implementation
              \o [i \in 1..Len(headers) |->
                    replace_api_macro_in_header_file(mod_root, headers[i],
                                                     old_name, new_name)]
              \o <<rename_source_subfolder(mod_root, new_name)>>
              \o [i \in 1..Len(targets.names) |->
                    replace_mod_reference_in_target(
                      WithExtension(Join(Join(project_root, SourceDir),
                                         targets.names[i]), ".Target.cs"),
                      old_name, new_name)]
              \o <<replace_mod_reference_in_project_descriptor(
                     project_root, project_name, old_name, new_name),
                   update_existing_redirects(project_root, old_name, new_name),
                   append_mod_redirect(project_root, old_name, new_name)>>]

-----------------------------------------------------------------------------
(* Project rename: workflows/rename_project/changesets/code.rs *)

(* The sub-plan of one build target: rewrite the target file, then rename it *)
generate_target_changeset(old_target_name, new_target_name, project_root) ==
  <<ReplaceInFile(
      WithExtension(Join(Join(project_root, SourceDir), old_target_name), ".Target.cs"),
      old_target_name, new_target_name),
    RenameFile(
      WithExtension(Join(Join(project_root, SourceDir), old_target_name), ".Target.cs"),
      WithExtension(Join(Join(project_root, SourceDir), new_target_name), ".Target.cs"))>>

replace_in_project_descriptor(project_root, old_project_name, new_project_name) ==
  ReplaceInFile(WithExtension(Join(project_root, old_project_name), ".uproject"),
                old_project_name, new_project_name)

rename_project_descriptor(project_root, old_project_name, new_project_name) ==
  RenameFile(WithExtension(Join(project_root, old_project_name), ".uproject"),
             WithExtension(Join(project_root, new_project_name), ".uproject"))

(* update_redirects_in_engine_config writing the new project path where
   the captured name belongs *)
update_redirects_in_engine_config_drops_capture(project_root, new_project_name) ==
  ReplaceInFile(
    project_root \o <<ConfigDir, DefaultEngineIni>>,
    <<"(OldGameName=\"", LazyCapOld, "\",", WsStar, "NewGameName=\"", LazyAny, "\")">>,
    <<"(OldGameName=\"">> \o Script(new_project_name)
      \o <<"\",", " ", "NewGameName=\"">> \o Script(new_project_name) \o <<"\")">>)

update_redirects_in_engine_config(project_root, new_project_name) ==
  ReplaceInFile(
    project_root \o <<ConfigDir, DefaultEngineIni>>,
    <<"(OldGameName=\"", LazyCapOld, "\",", WsStar, "NewGameName=\"", LazyAny, "\")">>,
    <<"(OldGameName=\"", RefOld, "\",", " ", "NewGameName=\"">>
      \o Script(new_project_name) \o <<"\")">>)

append_redirect_to_engine_config(project_root, old_project_name, new_project_name) ==
  AppendIniEntry(
    project_root \o <<ConfigDir, DefaultEngineIni>>,
    "/Script/Engine.Engine",
    "+ActiveGameNameRedirects",
    <<"(OldGameName=\"">> \o Script(old_project_name)
      \o <<"\",", " ", "NewGameName=\"">> \o Script(new_project_name) \o <<"\")">>)

(* add_game_name_to_engine_config built with the append variant *)
add_game_name_to_engine_config_appending(project_root, new_project_name) ==
  AppendIniEntry(project_root \o <<ConfigDir, DefaultEngineIni>>,
                 "URL", "GameName", new_project_name)

add_game_name_to_engine_config(project_root, new_project_name) ==
  SetIniEntry(project_root \o <<ConfigDir, DefaultEngineIni>>,
              "URL", "GameName", new_project_name)

add_project_name_to_game_config(project_root, new_project_name) ==
  SetIniEntry(project_root \o <<ConfigDir, DefaultGameIni>>,
              "/Script/EngineSettings.GeneralProjectSettings", "ProjectName",
              new_project_name)

rename_project_root(project_root, new_project_name) ==
  RenameFile(project_root, WithFileName(project_root, new_project_name))

(* generate_code_changeset once the loop over the targets has filled
   target_changes: the seven closing changes are appended *)
generate_code_changeset(context, target_changes) ==
  LET project_root == context.project_root
      old_project_name == context.project_name
      new_project_name == context.target_name
  IN  target_changes \o
      <<update_redirects_in_engine_config(project_root, new_project_name),
        append_redirect_to_engine_config(project_root, old_project_name,
                                         new_project_name),
        add_game_name_to_engine_config(project_root, new_project_name),
        add_project_name_to_game_config(project_root, new_project_name),
        replace_in_project_descriptor(project_root, old_project_name,
                                      new_project_name),
        rename_project_descriptor(project_root, old_project_name, new_project_name),
        rename_project_root(project_root, new_project_name)>>

(* The loop taking the targets from the far end *)
NextTarget_from_end(targets) == Last(targets)

(* The target the loop of generate_code_changeset handles next *)
NextTarget(targets) == Head(targets)

-----------------------------------------------------------------------------
(* The project trees the runs start from *)

Names == {<<"a">>, <<"b">>, <<"a", "b">>}

ProjectNames == {<<"a">>, <<"b">>}

InitialName == <<"a">>

(* What the operator may type when asked for a target's final name *)
ResolverAnswers(new_project_name) ==
  {new_project_name, Append(new_project_name, "Editor")}

TargetOrders == {<<InitialName>>,
                 <<InitialName, Append(InitialName, "Editor")>>,
                 <<Append(InitialName, "Editor"), InitialName>>}

ImplementationForms == {<<>>,
                        <<"IMPLEMENT", "_GAME", "_MODULE">>,
                        <<"IMPLEMENT", "_PRIMARY_GAME", "_MODULE">>}

(* A redirect line as the engine and the tool write it *)
Redirect(old, sep, new) ==
  <<"(OldName=\"">> \o old \o <<"\",">> \o sep \o <<"NewName=\"">> \o new \o <<"\")">>

GameRedirect(old, sep, new) ==
  <<"(OldGameName=\"">> \o old \o <<"\",">> \o sep \o <<"NewGameName=\"">> \o new
    \o <<"\")">>

Separators == {<<>>, <<" ">>}

EarlierNames == {<<"/Script/", "x">>, <<"/Game/", "y">>}

InitialRedirects ==
  {<<>>,
   <<Line("+PackageRedirects", Redirect(<<"/Script/", "x">>, <<>>, Script(InitialName)))>>,
   <<Line("+PackageRedirects", Redirect(<<"/Game/", "y">>, <<" ">>, Script(<<"b">>))),
     Line("+PackageRedirects", Redirect(<<"/Script/", "x">>, <<" ">>, Script(InitialName)))>>}

(* The game-name redirects DefaultEngine.ini holds before the first run:
   none, or one the engine's project template has left there *)
InitialGameRedirects ==
  {<<>>,
   <<Section("/Script/Engine.Engine",
             <<Line("+ActiveGameNameRedirects",
                    GameRedirect(<<"x">>, <<>>, <<"/Script/", "y">>))>>)>>}

ImplementationText(form, name) ==
  form \o <<"(", "FImpl", ",", " ">> \o name
    \o (IF form = <<"IMPLEMENT", "_PRIMARY_GAME", "_MODULE">>
        THEN <<",", " ">> \o Quoted(name) ELSE <<>>)
    \o <<")", ";">>

InitialTree(build_has_api, form, targets, redirects, game) ==
  LET root == <<InitialName>>
      source == Join(root, SourceDir)
      config == Join(root, ConfigDir)
      mod_root == Join(source, InitialName)
  IN  <<Dir(root),
        TextFile(WithExtension(Join(root, InitialName), ".uproject"),
                 <<"{">> \o Quoted(InitialName) \o <<"}">>),
        Dir(config),
        IniFile(Join(config, DefaultEngineIni),
                <<Section("CoreRedirects", redirects)>> \o game),
        IniFile(Join(config, DefaultGameIni), <<>>),
        Dir(source)>>
      \o [i \in 1..Len(targets) |->
            TextFile(WithExtension(Join(source, targets[i]), ".Target.cs"),
                     targets[i] \o <<"Target", " ">> \o Quoted(InitialName))]
      \o <<Dir(mod_root),
           TextFile(WithExtension(Join(mod_root, InitialName), ".Build.cs"),
                    <<"class", " ">> \o InitialName
                      \o (IF build_has_api THEN <<" ">> \o ApiToken(InitialName)
                          ELSE <<>>)),
           TextFile(Join(mod_root, <<"Actor", ".h">>),
                    <<"class", " ">> \o ApiToken(InitialName) \o <<" ", "AActor">>)>>
      \o (IF form = <<>> THEN <<>>
          ELSE <<TextFile(Join(mod_root, <<"Main", ".cpp">>),
                          ImplementationText(form, InitialName))>>)

InitialContext ==
  [project_root |-> <<InitialName>>,
   project_name |-> InitialName,
   mod_root |-> <<InitialName, SourceDir, InitialName>>,
   mod_name |-> InitialName,
   target_name |-> <<>>]

NoHistory ==
  [kind |-> "none", started |-> 0, modules |-> 0, projects |-> 0,
   before |-> <<>>, old |-> <<>>, new |-> <<>>, targets |-> <<>>,
   sets |-> 0, last |-> <<>>, appended |-> <<>>]

Init ==
  /\ \E build_has_api \in BOOLEAN, form \in ImplementationForms,
        targets \in TargetOrders, redirects \in InitialRedirects,
        game \in InitialGameRedirects :
       fs = InitialTree(build_has_api, form, targets, redirects, game)
  /\ ctx = InitialContext
  /\ plan = <<>>
  /\ idx = 0
  /\ pc = "idle"
  /\ pending = <<>>
  /\ resolved = <<>>
  /\ hist = NoHistory

-----------------------------------------------------------------------------
(* The workflows *)

(* The context the next run is given once a plan has been applied: the
   module and the project are found where the plan has put them. *)
ContextAfter(context, kind) ==
  IF kind = "module"
  THEN [context EXCEPT !.mod_root = WithFileName(@, context.target_name),
                       !.mod_name = context.target_name,
                       !.target_name = <<>>]
  ELSE [context EXCEPT
          !.project_root = WithFileName(@, context.target_name),
          !.project_name = context.target_name,
          !.mod_root = MovePath(@, context.project_root,
                                WithFileName(context.project_root, context.target_name)),
          !.target_name = <<>>]

(* RenameModule with a generator that carries out its first change while
   it plans *)
RenameModule_applying(new_name) ==
  /\ pc = "idle"
  /\ hist.started < MaxRenames
  /\ new_name # ctx.mod_name
  /\ LET context == [ctx EXCEPT !.target_name = new_name]
         generated == generate_changeset(fs, context)
     IN  /\ ctx' = context
         /\ plan' = generated.changes
         /\ idx' = 1
         /\ pc' = IF generated.ok THEN "exec" ELSE "aborted"
         /\ fs' = IF generated.ok THEN ApplyChange(fs, generated.changes[1]).fs
                  ELSE fs
         /\ hist' = [hist EXCEPT !.kind = "module", !.started = @ + 1,
                                 !.before = fs, !.old = ctx.mod_name,
                                 !.new = new_name,
                                 !.targets = find_target_file_names(
                                               fs, ctx.project_root).names]
  /\ UNCHANGED <<pending, resolved>>

(* Rename the module: the plan is generated in one go *)
RenameModule(new_name) ==
  /\ pc = "idle"
  /\ hist.started < MaxRenames
  /\ new_name # ctx.mod_name
  /\ LET context == [ctx EXCEPT !.target_name = new_name]
         generated == generate_changeset(fs, context)
     IN  /\ ctx' = context
         /\ plan' = generated.changes
         /\ idx' = 1
         /\ pc' = IF generated.ok THEN "exec" ELSE "aborted"
         /\ hist' = [hist EXCEPT !.kind = "module", !.started = @ + 1,
                                 !.before = fs, !.old = ctx.mod_name,
                                 !.new = new_name,
                                 !.targets = find_target_file_names(
                                               fs, ctx.project_root).names]
  /\ UNCHANGED <<fs, pending, resolved>>

(* Rename the project: the targets are discovered, then the operator is
   asked for each target's final name before its sub-plan is added *)
RenameProject(new_name) ==
  /\ pc = "idle"
  /\ hist.started < MaxRenames
  /\ new_name # ctx.project_name
  /\ LET found == find_target_file_names(fs, ctx.project_root)
     IN  /\ pending' = found.names
         /\ pc' = IF ~found.ok THEN "aborted"
                  ELSE IF found.names = <<>> THEN "tail" ELSE "resolve"
         /\ hist' = [hist EXCEPT !.kind = "project", !.started = @ + 1,
                                 !.before = fs, !.old = ctx.project_name,
                                 !.new = new_name, !.targets = found.names]
  /\ ctx' = [ctx EXCEPT !.target_name = new_name]
  /\ plan' = <<>>
  /\ idx' = 1
  /\ resolved' = <<>>
  /\ UNCHANGED fs

(* request_final_target_name returns the line read *)
ResolveTarget(answer) ==
  /\ pc = "resolve"
  /\ resolved' = Append(resolved, <<NextTarget(pending), answer>>)
  /\ pc' = "extend"
  /\ UNCHANGED <<fs, ctx, plan, idx, pending, hist>>

(* request_final_target_name panics on a read error *)
ResolveFails ==
  /\ pc = "resolve"
  /\ pc' = "aborted"
  /\ plan' = <<>>
  /\ UNCHANGED <<fs, ctx, idx, pending, resolved, hist>>

(* changeset.extend(generate_target_changeset(...)) *)
ExtendTarget ==
  /\ pc = "extend"
  /\ plan' = plan \o generate_target_changeset(NextTarget(pending), Last(resolved)[2],
                                               ctx.project_root)
  /\ pending' = Tail(pending)
  /\ pc' = IF pending' = <<>> THEN "tail" ELSE "resolve"
  /\ UNCHANGED <<fs, ctx, idx, resolved, hist>>

(* The closing changes are appended and the plan is returned *)
FinishCodeChangeset ==
  /\ pc = "tail"
  /\ plan' = generate_code_changeset(ctx, plan)
  /\ pc' = "exec"
  /\ UNCHANGED <<fs, ctx, idx, pending, resolved, hist>>

(* The execution engine applies the next change of the plan; it stops at
   the first change that fails *)
ApplyNext ==
  /\ pc = "exec"
  /\ idx <= Len(plan)
  /\ LET result == ApplyChange(fs, plan[idx])
         last == idx = Len(plan)
     IN  /\ fs' = result.fs
         /\ idx' = IF result.ok THEN idx + 1 ELSE idx
         /\ pc' = IF ~result.ok THEN "failed" ELSE IF last THEN "idle" ELSE "exec"
         /\ ctx' = IF result.ok /\ last THEN ContextAfter(ctx, hist.kind) ELSE ctx
         /\ hist' = IF result.ok /\ last
                    THEN IF hist.kind = "module"
                         THEN [hist EXCEPT !.modules = @ + 1]
                         ELSE [hist EXCEPT !.projects = @ + 1]
                    ELSE hist
  /\ UNCHANGED <<plan, pending, resolved>>

Next ==
  \/ \E new_name \in Names : RenameModule(new_name)
  \/ \E new_name \in ProjectNames : RenameProject(new_name)
  \/ \E answer \in ResolverAnswers(ctx.target_name) : ResolveTarget(answer)
  \/ ResolveFails
  \/ ExtendTarget
  \/ FinishCodeChangeset
  \/ ApplyNext

Spec == Init /\ [][Next]_vars

-----------------------------------------------------------------------------
(* Plan generation over project trees of every shape the discovery steps
   tell apart; the plans are generated and not applied. *)

Unreadable(e) == [e EXCEPT !.readable = FALSE]

(* What a source file of the module may hold *)
CppTexts ==
  {<<"class", " ", "x">>,
   ImplementationText(<<"IMPLEMENT", "_MODULE">>, InitialName),
   ImplementationText(<<"IMPLEMENT", "_GAME", "_MODULE">>, InitialName),
   ImplementationText(<<"IMPLEMENT", "_PRIMARY_GAME", "_MODULE">>, InitialName),
   <<"IMPLEMENT", "_MODULE", "(", " ", "FOther", ",", " ">> \o InitialName
     \o <<")", ";">>,
   ImplementationText(<<"IMPLEMENT", "_GAME", "_MODULE">>, InitialName)
     \o <<Newline>>
     \o ImplementationText(<<"IMPLEMENT", "_PRIMARY_GAME", "_MODULE">>, InitialName),
   <<"IMPLEMENT", "_MODULE", "(", "FImpl", ")", ";">>,
   <<"MY", "_MODULE", "(", "x", ",", " ", "y", ")">>}

UnreadableCppTexts ==
  {<<"class", " ", "x">>,
   ImplementationText(<<"IMPLEMENT", "_GAME", "_MODULE">>, InitialName)}

CppFiles ==
  [text : CppTexts, readable : {TRUE}]
    \cup [text : UnreadableCppTexts, readable : {FALSE}]

CppLayouts == UNION {[1..n -> CppFiles] : n \in 0..MaxCppFiles}

CppNames == <<"Main", "Other", "Third", "Fourth">>

SourceStates == {"readable", "unreadable", "absent"}

(* The tree of InitialTree with the source files of the layout in the
   module directory, the header readable or not, and the Source directory
   in the given state *)
GenTree(source_state, cpps, header_readable, targets) ==
  LET root == <<InitialName>>
      source == Join(root, SourceDir)
      mod_root == Join(source, InitialName)
      base == InitialTree(FALSE, <<>>, targets, <<>>, <<>>)
      header == Join(mod_root, <<"Actor", ".h">>)
      marked == [i \in 1..Len(base) |->
                   IF base[i].path = source /\ source_state = "unreadable"
                   THEN Unreadable(base[i])
                   ELSE IF base[i].path = header /\ ~header_readable
                   THEN Unreadable(base[i])
                   ELSE base[i]]
      files == [i \in 1..Len(cpps) |->
                  LET f == TextFile(Join(mod_root, <<CppNames[i], ".cpp">>),
                                    cpps[i].text)
                  IN  IF cpps[i].readable THEN f ELSE Unreadable(f)]
  IN  IF source_state = "absent"
      THEN SelectSeq(marked, LAMBDA e : ~StartsWith(e.path, source))
      ELSE marked \o files

InitGen ==
  /\ \E source_state \in SourceStates, cpps \in CppLayouts,
        header_readable \in BOOLEAN, targets \in TargetOrders :
       /\ source_state # "readable" => (cpps = <<>> /\ header_readable)
       /\ fs = GenTree(source_state, cpps, header_readable, targets)
  /\ ctx = InitialContext
  /\ plan = <<>>
  /\ idx = 0
  /\ pc = "idle"
  /\ pending = <<>>
  /\ resolved = <<>>
  /\ hist = NoHistory

NextGen ==
  \/ \E new_name \in Names : RenameModule(new_name)
  \/ \E new_name \in ProjectNames : RenameProject(new_name)
  \/ \E answer \in ResolverAnswers(ctx.target_name) : ResolveTarget(answer)
  \/ ResolveFails
  \/ ExtendTarget
  \/ FinishCodeChangeset

SpecGen == InitGen /\ [][NextGen]_vars

-----------------------------------------------------------------------------
(* The configuration changes of the project rename, applied to
   DefaultEngine.ini in any number and order, from any state of the file *)

UrlLines ==
  {<<>>,
   <<Line("GameName", <<"a">>)>>,
   <<Line("Map", <<"x">>), Line("GameName", <<"b">>)>>,
   <<Line("GameName", <<"a">>), Line("GameName", <<"b">>)>>}

EngineLines ==
  <<Line("+ActiveGameNameRedirects",
         GameRedirect(<<"/Script/", "x">>, <<>>, Script(InitialName)))>>

IniStates ==
  {<<>>}
    \cup {<<Section("URL", u)>> : u \in UrlLines}
    \cup {<<Section("/Script/Engine.Engine", EngineLines), Section("URL", u)>> :
            u \in UrlLines}

InitIni ==
  /\ \E secs \in IniStates :
       /\ fs = <<Dir(<<InitialName>>), Dir(<<InitialName, ConfigDir>>),
                 IniFile(<<InitialName, ConfigDir, DefaultEngineIni>>, secs)>>
       /\ hist = [NoHistory EXCEPT !.kind = "ini", !.before = fs]
  /\ ctx = InitialContext
  /\ plan = <<>>
  /\ idx = 0
  /\ pc = "config"
  /\ pending = <<>>
  /\ resolved = <<>>

SetGameName(name) ==
  /\ pc = "config"
  /\ hist.started < MaxIniOps
  /\ fs' = ApplyChange(fs, add_game_name_to_engine_config(ctx.project_root, name)).fs
  /\ hist' = [hist EXCEPT !.started = @ + 1, !.sets = @ + 1, !.last = name]
  /\ UNCHANGED <<ctx, plan, idx, pc, pending, resolved>>

AppendGameRedirect(name) ==
  /\ pc = "config"
  /\ hist.started < MaxIniOps
  /\ LET change == append_redirect_to_engine_config(ctx.project_root,
                                                    ctx.project_name, name)
     IN  /\ fs' = ApplyChange(fs, change).fs
         /\ hist' = [hist EXCEPT !.started = @ + 1,
                                 !.appended = Append(@, change.value)]
  /\ UNCHANGED <<ctx, plan, idx, pc, pending, resolved>>

NextIni ==
  \/ \E name \in Names : SetGameName(name)
  \/ \E name \in Names : AppendGameRedirect(name)

SpecIni == InitIni /\ [][NextIni]_vars

-----------------------------------------------------------------------------
(* The build-file rewrite applied to any text, for any pair of names *)

TextAlphabet == {"a", "b", "x"}

Texts == UNION {[1..n -> TextAlphabet] : n \in 0..MaxTextLen}

RewriteNames == Names \cup {<<"x">>}

InitRewrite ==
  /\ \E old_name \in RewriteNames, new_name \in RewriteNames, text \in Texts :
       /\ old_name # new_name
       /\ ctx = [InitialContext EXCEPT !.mod_name = old_name,
                                       !.target_name = new_name]
       /\ fs = <<Dir(InitialContext.mod_root),
                 TextFile(WithExtension(Join(InitialContext.mod_root, old_name),
                                        ".Build.cs"), text)>>
       /\ hist = [NoHistory EXCEPT !.kind = "text", !.before = fs,
                                   !.old = old_name, !.new = new_name]
  /\ plan = <<>>
  /\ idx = 0
  /\ pc = "rewrite"
  /\ pending = <<>>
  /\ resolved = <<>>

RewriteBuildFile ==
  /\ pc = "rewrite"
  /\ fs' = ApplyChange(fs, rename_build_class(ctx.mod_root, ctx.mod_name,
                                              ctx.target_name)).fs
  /\ pc' = "rewritten"
  /\ UNCHANGED <<ctx, plan, idx, pending, resolved, hist>>

NextRewrite == RewriteBuildFile

SpecRewrite == InitRewrite /\ [][NextRewrite]_vars

-----------------------------------------------------------------------------
(* What the properties below read *)

Under(path, dir) == StartsWith(path, dir)

EngineIniPath(project_root) == project_root \o <<ConfigDir, DefaultEngineIni>>

GameIniPath(project_root) == project_root \o <<ConfigDir, DefaultGameIni>>

DescriptorPath(project_root, name) == Append(project_root, Append(name, ".uproject"))

BuildFilePath(mod_root, name) == Append(mod_root, Append(name, ".Build.cs"))

ModulePlanReady == pc = "exec" /\ hist.kind = "module"

ProjectPlanReady == pc = "exec" /\ hist.kind = "project"

-----------------------------------------------------------------------------
(* C1: the project-rename plan for one build target starts with the
   rewrite of <root>/<old>.uproject, followed at once by the rename of that
   file, and ends with redirect update, redirect append, SetIniEntry
   GameName, SetIniEntry ProjectName and the rename of the project root. *)
C1_DescriptorChangesComeFirst ==
  (ProjectPlanReady /\ Len(hist.targets) = 1) =>
    LET n == Len(plan)
        root == ctx.project_root
        descriptor == DescriptorPath(root, hist.old)
    IN  /\ n >= 7
        /\ plan[1].kind = "ReplaceInFile" /\ plan[1].path = descriptor
        /\ plan[2].kind = "RenameFile" /\ plan[2].from = descriptor
        /\ plan[n - 4].kind = "ReplaceInFile" /\ plan[n - 4].path = EngineIniPath(root)
        /\ plan[n - 3].kind = "AppendIniEntry"
        /\ plan[n - 2].kind = "SetIniEntry" /\ plan[n - 2].key = "GameName"
        /\ plan[n - 1].kind = "SetIniEntry" /\ plan[n - 1].key = "ProjectName"
        /\ plan[n].kind = "RenameFile" /\ plan[n].from = root

-----------------------------------------------------------------------------
(* C2: in every generated plan no ReplaceInFile, AppendIniEntry or
   SetIniEntry addresses a path that equals, or lies under, the from path
   of a RenameFile placed earlier in the plan. *)
C2_EditsPrecedeRenames ==
  pc = "exec" =>
    \A i \in 1..Len(plan), j \in 1..Len(plan) :
      (i < j /\ plan[i].kind = "RenameFile" /\ IsEdit(plan[j]))
        => ~Under(plan[j].path, plan[i].from)

-----------------------------------------------------------------------------
(* C3: while a plan is executed in order, the path the next change names
   exists in the tree at the moment the change is applied. *)
C3_AddressedPathExists ==
  (pc = "exec" /\ idx <= Len(plan)) => Exists(fs, Addressed(plan[idx]))

-----------------------------------------------------------------------------
(* C4: a module-rename plan holds exactly two RenameFile changes, the one
   of <mod_root>/<old>.Build.cs to <mod_root>/<new>.Build.cs and the one
   of <mod_root> to <parent of mod_root>/<new>; every other change is a
   ReplaceInFile or an AppendIniEntry. *)
C4_ExactlyTwoRenames ==
  ModulePlanReady =>
    LET renames == {i \in 1..Len(plan) : plan[i].kind = "RenameFile"}
        build == {i \in renames :
                    /\ plan[i].from = BuildFilePath(ctx.mod_root, hist.old)
                    /\ plan[i].to = BuildFilePath(ctx.mod_root, hist.new)}
        folder == {i \in renames :
                     /\ plan[i].from = ctx.mod_root
                     /\ plan[i].to = Append(Front(ctx.mod_root), hist.new)}
    IN  /\ Cardinality(renames) = 2
        /\ Cardinality(build) = 1
        /\ Cardinality(folder) = 1
        /\ \A i \in (1..Len(plan)) \ renames :
             plan[i].kind \in {"ReplaceInFile", "AppendIniEntry"}

C4_Witness ==
  /\ ModulePlanReady
  /\ idx = 1
  /\ Len(hist.targets) = 2
  /\ \E i \in 1..Len(plan) : Extension(plan[i].path) = ".cpp"

-----------------------------------------------------------------------------
(* C5: a module-rename plan is, in this order: build-file rewrite,
   build-file rename, at most one implementation-file rewrite, one
   API-token rewrite per file holding the token, the subfolder rename, one
   module-reference rewrite per *.Target.cs, the project-descriptor
   rewrite, the redirect update on Config/DefaultEngine.ini and the
   redirect append to [CoreRedirects] +PackageRedirects, which are the last
   two changes. *)
ImplementationCount(tree, mod_root) ==
  IF \E i \in 1..Len(tree) :
       /\ Under(tree[i].path, mod_root)
       /\ ~tree[i].dir /\ tree[i].readable
       /\ Last(Last(tree[i].path)) = ".cpp"
       /\ \E k \in 1..Len(tree[i].text) : tree[i].text[k] = "_MODULE"
  THEN 1 ELSE 0

ApiFileCount(tree, mod_root, name) ==
  Cardinality({i \in 1..Len(tree) :
                 /\ Under(tree[i].path, mod_root)
                 /\ ~tree[i].dir /\ tree[i].readable
                 /\ Contains(tree[i].text, Append(to_uppercase(name), "_API"))})

TargetFileCount(tree, project_root) ==
  Cardinality({i \in 1..Len(tree) :
                 /\ Front(tree[i].path) = Append(project_root, SourceDir)
                 /\ Last(Last(tree[i].path)) = ".Target.cs"})

C5_ModulePlanOrder ==
  ModulePlanReady =>
    LET n == Len(plan)
        impl == ImplementationCount(hist.before, ctx.mod_root)
        api == ApiFileCount(hist.before, ctx.mod_root, hist.old)
        targets == TargetFileCount(hist.before, ctx.project_root)
        build == BuildFilePath(ctx.mod_root, hist.old)
        folder == 3 + impl + api
    IN  /\ n = 6 + impl + api + targets
        /\ plan[1].kind = "ReplaceInFile" /\ plan[1].path = build
        /\ plan[1].pattern = hist.old /\ plan[1].replacement = hist.new
        /\ plan[2].kind = "RenameFile" /\ plan[2].from = build
        /\ impl = 1 =>
             /\ plan[3].kind = "ReplaceInFile"
             /\ Extension(plan[3].path) = ".cpp"
             /\ plan[3].pattern[1] = "_MODULE"
        /\ \A k \in 1..api :
             /\ plan[2 + impl + k].kind = "ReplaceInFile"
             /\ Under(plan[2 + impl + k].path, ctx.mod_root)
             /\ plan[2 + impl + k].pattern = Append(to_uppercase(hist.old), "_API")
        /\ plan[folder].kind = "RenameFile" /\ plan[folder].from = ctx.mod_root
        /\ \A k \in 1..targets :
             /\ plan[folder + k].kind = "ReplaceInFile"
             /\ Extension(plan[folder + k].path) = ".Target.cs"
        /\ plan[n - 2].kind = "ReplaceInFile"
        /\ plan[n - 2].path = DescriptorPath(ctx.project_root, ctx.project_name)
        /\ plan[n - 1].kind = "ReplaceInFile"
        /\ plan[n - 1].path = EngineIniPath(ctx.project_root)
        /\ plan[n].kind = "AppendIniEntry"
        /\ plan[n].path = EngineIniPath(ctx.project_root)
        /\ plan[n].section = "CoreRedirects" /\ plan[n].key = "+PackageRedirects"

C5_Witness ==
  /\ ModulePlanReady
  /\ idx = 1
  /\ ImplementationCount(hist.before, ctx.mod_root) = 1
  /\ ApiFileCount(hist.before, ctx.mod_root, hist.old) = 2
  /\ TargetFileCount(hist.before, ctx.project_root) = 2

-----------------------------------------------------------------------------
(* C10: while a project-rename plan is generated the resolver is called
   once per discovered target, in discovery order; a target's sub-plan is
   added only after the resolver has returned for it, and the sub-plans
   stand in the plan in discovery order. *)
SubPlansAdded == Len(resolved) - (IF pc = "extend" THEN 1 ELSE 0)

C10_ResolverBeforeSubPlan ==
  (hist.kind = "project" /\ pc \in {"resolve", "extend", "tail", "exec"}) =>
    /\ Len(resolved) <= Len(hist.targets)
    /\ \A i \in 1..Len(resolved) : resolved[i][1] = hist.targets[i]
    /\ pc \in {"resolve", "extend", "tail"} => Len(plan) = 2 * SubPlansAdded
    /\ pc \in {"tail", "exec"} => Len(resolved) = Len(hist.targets)
    /\ pc = "exec" => Len(plan) = 2 * Len(resolved) + 7
    /\ \A i \in 1..SubPlansAdded :
         /\ Front(Last(plan[2 * i - 1].path)) = hist.targets[i]
         /\ Front(Last(plan[2 * i].from)) = hist.targets[i]
         /\ Front(Last(plan[2 * i].to)) = resolved[i][2]

C10_Witness ==
  /\ hist.kind = "project"
  /\ pc = "extend"
  /\ Len(resolved) = 2
  /\ Len(plan) = 2

-----------------------------------------------------------------------------
(* C6: once a module rename Old -> New has been executed, every redirect
   line of DefaultEngine.ini that read (OldName="X", NewName="/Script/Old")
   reads (OldName="X", NewName="/Script/New") with the same X, and every
   other line the file held reads as before. *)
RedirectSources == EarlierNames \cup {Script(n) : n \in Names}

ModuleRenameDone == pc = "idle" /\ hist.kind = "module"

PointsAt(value, name) ==
  \E x \in RedirectSources, sep \in Separators : value = Redirect(x, sep, Script(name))

C6_RedirectsRetargeted ==
  ModuleRenameDone =>
    LET before == Lookup(hist.before, EngineIniPath(ctx.project_root)).secs
        after == Lookup(fs, EngineIniPath(ctx.project_root)).secs
    IN  \A s \in 1..Len(before) : \A k \in 1..Len(before[s].lines) :
          LET v == before[s].lines[k].value
              w == after[s].lines[k].value
          IN  IF PointsAt(v, hist.old)
              THEN \E x \in RedirectSources, sep \in Separators :
                     /\ v = Redirect(x, sep, Script(hist.old))
                     /\ w = Redirect(x, <<" ">>, Script(hist.new))
              ELSE w = v

C6_Witness ==
  /\ ModuleRenameDone
  /\ LET before == Lookup(hist.before, EngineIniPath(ctx.project_root)).secs
     IN  /\ \E k \in 1..Len(before[1].lines) :
               PointsAt(before[1].lines[k].value, hist.old)
         /\ \E k \in 1..Len(before[1].lines) :
               ~PointsAt(before[1].lines[k].value, hist.old)

-----------------------------------------------------------------------------
(* C7: after any sequence of executed module renames every
   +PackageRedirects line the tool has appended names the module's current
   path as its NewName. *)
C7_RedirectsNameCurrentModule ==
  (pc = "idle" /\ hist.modules >= 1) =>
    LET values == ValuesOf(Lookup(fs, EngineIniPath(ctx.project_root)).secs,
                           "CoreRedirects", "+PackageRedirects")
        n == Len(values)
    IN  /\ n >= hist.modules
        /\ \A k \in (n - hist.modules + 1)..n : PointsAt(values[k], ctx.mod_name)

C7_Witness ==
  /\ pc = "idle"
  /\ hist.modules = 2
  /\ ctx.mod_name = <<"a", "b">>

-----------------------------------------------------------------------------
(* C8 as stated: from every state of the configuration file, two or more
   SetIniEntry applications to [URL] GameName leave exactly one GameName
   line, holding the last value, and n AppendIniEntry applications add n
   lines after the ones the key already had, which stay as they were. *)
EngineIniBefore == Lookup(hist.before, EngineIniPath(ctx.project_root)).secs

EngineIniNow == Lookup(fs, EngineIniPath(ctx.project_root)).secs

AppendsAccumulate ==
  ValuesOf(EngineIniNow, "/Script/Engine.Engine", "+ActiveGameNameRedirects")
    = ValuesOf(EngineIniBefore, "/Script/Engine.Engine", "+ActiveGameNameRedirects")
        \o hist.appended

-----------------------------------------------------------------------------
(* C9 as stated: for every pair of names the build-file rewrite of a text
   with n occurrences of the old name leaves none of the old name and n of
   the new name. *)
RECURSIVE Occurrences(_, _)
Occurrences(text, token) ==
  IF Len(text) < Len(token) THEN 0
  ELSE IF SubSeq(text, 1, Len(token)) = token
       THEN 1 + Occurrences(SubSeq(text, Len(token) + 1, Len(text)), token)
       ELSE Occurrences(Tail(text), token)

(* The stretches of text between the occurrences of token *)
RECURSIVE Between(_, _, _)
Between(text, token, stretch) ==
  IF Len(text) < Len(token) THEN <<stretch \o text>>
  ELSE IF SubSeq(text, 1, Len(token)) = token
       THEN <<stretch>> \o Between(SubSeq(text, Len(token) + 1, Len(text)), token, <<>>)
       ELSE Between(Tail(text), token, Append(stretch, Head(text)))

RECURSIVE Rejoin(_, _)
Rejoin(stretches, token) ==
  IF Len(stretches) = 1 THEN stretches[1]
  ELSE stretches[1] \o token \o Rejoin(Tail(stretches), token)

Chars(s) == {s[i] : i \in 1..Len(s)}

TextBefore == hist.before[2].text

TextNow == fs[2].text

C9_NoOldTokenRemains ==
  pc = "rewritten" =>
    /\ Occurrences(TextNow, hist.old) = 0
    /\ Occurrences(TextNow, hist.new) = Occurrences(TextBefore, hist.old)

(* C9, amended: the rewrite puts the new name in place of each of the n
   leftmost non-overlapping occurrences of the old name and leaves the text
   between them as it was; no occurrence of the old name remains when the
   two names share no character, and exactly n of the new name are there
   when, besides, the text held no character of the new name. *)
C9_OccurrencesReplaced ==
  pc = "rewritten" =>
    LET n == Occurrences(TextBefore, hist.old)
        apart == Chars(hist.old) \cap Chars(hist.new) = {}
    IN  /\ TextNow = Rejoin(Between(TextBefore, hist.old, <<>>), hist.new)
        /\ Len(TextNow) = Len(TextBefore) + n * (Len(hist.new) - Len(hist.old))
        /\ Occurrences(TextNow, hist.new) >= n
        /\ apart => Occurrences(TextNow, hist.old) = 0
        /\ (apart /\ Chars(TextBefore) \cap Chars(hist.new) = {})
             => /\ Occurrences(TextNow, hist.new) = n
                /\ Between(TextNow, hist.new, <<>>)
                     = Between(TextBefore, hist.old, <<>>)

C9_Witness ==
  /\ pc = "rewritten"
  /\ hist.old = <<"a", "b">>
  /\ hist.new = <<"x">>
  /\ Occurrences(TextBefore, hist.old) = 1
  /\ Len(TextBefore) = 3
  /\ TextNow # TextBefore

-----------------------------------------------------------------------------
(* C11: plan generation leaves the file system as it found it, the paths
   and the content of every file, whether it returns a plan or aborts. *)
C11_GenerationReadsOnly ==
  hist.kind # "none" => fs = hist.before

C11_Witness ==
  /\ hist.kind = "module"
  /\ pc = "aborted"
  /\ \E i \in 1..Len(fs) : Extension(fs[i].path) = ".cpp"
  /\ fs = hist.before

-----------------------------------------------------------------------------
(* C12: generate_changeset returns no partial plan.  If the Source
   directory cannot be read, or the implementation file it discovers holds
   no IMPLEMENT_MODULE, IMPLEMENT_GAME_MODULE or
   IMPLEMENT_PRIMARY_GAME_MODULE invocation with two arguments, it aborts
   and yields no plan; a plan it returns holds every step, the redirect
   append last. *)
SourceReadable(tree, project_root) ==
  \E i \in 1..Len(tree) :
    /\ tree[i].path = Append(project_root, SourceDir)
    /\ tree[i].dir /\ tree[i].readable

IsImplementationFile(e, mod_root) ==
  /\ Under(e.path, mod_root)
  /\ ~e.dir /\ e.readable
  /\ Last(Last(e.path)) = ".cpp"
  /\ \E k \in 1..Len(e.text) : e.text[k] = "_MODULE"

(* Position in the tree of the implementation file the walk meets first,
   0 if it meets none *)
FirstImplementation(tree, mod_root) ==
  IF \E i \in 1..Len(tree) : IsImplementationFile(tree[i], mod_root)
  THEN CHOOSE i \in 1..Len(tree) :
         /\ IsImplementationFile(tree[i], mod_root)
         /\ \A j \in 1..(i - 1) : ~IsImplementationFile(tree[j], mod_root)
  ELSE 0

(* An invocation of one of the three macros with a first argument and a
   comma after it on the same line, starting at position i *)
InvocationAt(text, i, macro) ==
  /\ i + Len(macro) <= Len(text)
  /\ SubSeq(text, i, i + Len(macro) - 1) = macro
  /\ text[i + Len(macro)] = "("
  /\ \E j \in (i + Len(macro) + 2)..Len(text) :
       /\ text[j] = ","
       /\ \A k \in (i + Len(macro) + 1)..(j - 1) : text[k] # "\n"

HasInvocation(text) ==
  \E i \in 1..Len(text) :
    \/ InvocationAt(text, i, <<"IMPLEMENT", "_MODULE">>)
    \/ InvocationAt(text, i, <<"IMPLEMENT", "_GAME", "_MODULE">>)
    \/ InvocationAt(text, i, <<"IMPLEMENT", "_PRIMARY_GAME", "_MODULE">>)

GenerationMustAbort ==
  LET first == FirstImplementation(hist.before, ctx.mod_root)
  IN  \/ ~SourceReadable(hist.before, ctx.project_root)
      \/ first # 0 /\ ~HasInvocation(hist.before[first].text)

C12_NoPartialPlan ==
  (hist.kind = "module" /\ pc \in {"exec", "aborted"}) =>
    /\ GenerationMustAbort => (pc = "aborted" /\ plan = <<>>)
    /\ pc = "exec" =>
         /\ Len(plan) = 6 + ImplementationCount(hist.before, ctx.mod_root)
                          + ApiFileCount(hist.before, ctx.mod_root, hist.old)
                          + TargetFileCount(hist.before, ctx.project_root)
         /\ plan[Len(plan)].kind = "AppendIniEntry"
         /\ plan[Len(plan)].key = "+PackageRedirects"
         /\ plan[Len(plan)].value
              = <<"(OldName=\"", "/Script/">> \o hist.old
                  \o <<"\",", "NewName=\"", "/Script/">> \o hist.new \o <<"\")">>

C12_Witness ==
  /\ hist.kind = "module"
  /\ pc = "aborted"
  /\ plan = <<>>
  /\ SourceReadable(hist.before, ctx.project_root)
  /\ FirstImplementation(hist.before, ctx.mod_root) # 0
  /\ ~HasInvocation(hist.before[FirstImplementation(hist.before, ctx.mod_root)].text)
  /\ \E i \in 1..Len(hist.before) :
       /\ IsImplementationFile(hist.before[i], ctx.mod_root)
       /\ HasInvocation(hist.before[i].text)

-----------------------------------------------------------------------------
(* C13: with no .cpp file under the module root holding "_MODULE" the plan
   is returned without an implementation-file rewrite; with such a file it
   holds exactly one, for the first of them in walk order; its other steps
   are the ones it would hold without the marker in any file. *)
IsImplementationRewrite(c) ==
  c.kind = "ReplaceInFile" /\ c.pattern = <<"_MODULE", "(", ".+", ")">>

(* The tree with the marker taken out of every source file *)
Unmarked(tree) ==
  [i \in 1..Len(tree) |->
     IF Last(Last(tree[i].path)) = ".cpp"
     THEN [tree[i] EXCEPT !.text = SelectSeq(@, LAMBDA s : s # "_MODULE")]
     ELSE tree[i]]

C13_ImplementationRewriteOptional ==
  ModulePlanReady =>
    LET first == FirstImplementation(hist.before, ctx.mod_root)
        rewrites == {k \in 1..Len(plan) : IsImplementationRewrite(plan[k])}
        others == SelectSeq(plan, LAMBDA c : ~IsImplementationRewrite(c))
    IN  /\ first = 0 => rewrites = {}
        /\ first # 0 =>
             /\ rewrites = {3}
             /\ plan[3].path = hist.before[first].path
        /\ others = generate_changeset(Unmarked(hist.before), ctx).changes

C13_Witness ==
  /\ ModulePlanReady
  /\ Cardinality({i \in 1..Len(hist.before) :
                    IsImplementationFile(hist.before[i], ctx.mod_root)}) = 2
  /\ IsImplementationRewrite(plan[3])

-----------------------------------------------------------------------------
(* C14: the implementation-file rewrite keeps the first argument of the
   first macro invocation of the file as it is written there and puts the
   new name as the module-name argument; it has a third argument, the new
   name in double quotes, exactly when that invocation is
   IMPLEMENT_PRIMARY_GAME_MODULE, and two arguments otherwise. *)
ImplementationMacros ==
  {<<"IMPLEMENT", "_MODULE">>,
   <<"IMPLEMENT", "_GAME", "_MODULE">>,
   <<"IMPLEMENT", "_PRIMARY_GAME", "_MODULE">>}

FirstInvocation(text) ==
  CHOOSE i \in 1..Len(text) :
    /\ \E macro \in ImplementationMacros : InvocationAt(text, i, macro)
    /\ \A j \in 1..(i - 1) :
         \A macro \in ImplementationMacros : ~InvocationAt(text, j, macro)

MacroAt(text, i) ==
  CHOOSE macro \in ImplementationMacros : InvocationAt(text, i, macro)

(* The text between the parenthesis that opens at position open and the
   nearest comma that leaves it at least one character *)
FirstArgument(text, open) ==
  LET comma == CHOOSE j \in (open + 2)..Len(text) :
                 /\ text[j] = ","
                 /\ \A k \in (open + 2)..(j - 1) : text[k] # ","
  IN  SubSeq(text, open + 1, comma - 1)

C14_ImplementationArguments ==
  (ModulePlanReady /\ FirstImplementation(hist.before, ctx.mod_root) # 0) =>
    LET text == hist.before[FirstImplementation(hist.before, ctx.mod_root)].text
        at == FirstInvocation(text)
        macro == MacroAt(text, at)
        class == FirstArgument(text, at + Len(macro))
        two == <<"_MODULE", "(">> \o class \o <<",", " ">> \o hist.new
    IN  plan[3].replacement =
          IF macro = <<"IMPLEMENT", "_PRIMARY_GAME", "_MODULE">>
          THEN two \o <<",", " ", "\"">> \o hist.new \o <<"\"", ")">>
          ELSE two \o <<")">>

C14_Witness ==
  /\ ModulePlanReady
  /\ FirstImplementation(hist.before, ctx.mod_root) # 0
  /\ LET text == hist.before[FirstImplementation(hist.before, ctx.mod_root)].text
     IN  /\ MacroAt(text, FirstInvocation(text)) = <<"IMPLEMENT", "_GAME", "_MODULE">>
         /\ \E i \in 1..Len(text) :
              InvocationAt(text, i, <<"IMPLEMENT", "_PRIMARY_GAME", "_MODULE">>)
  /\ hist.new = <<"a", "b">>

-----------------------------------------------------------------------------
(* C15: an entry the searches cannot read as text, a file or a directory,
   counts as not matching.  Neither the implementation-file rewrite nor an
   API-macro rewrite names it, it does not make generation abort, and the
   plan is the one generated for the tree without the unreadable files. *)
IsApiRewrite(c) ==
  c.kind = "ReplaceInFile" /\ c.pattern = Append(to_uppercase(hist.old), "_API")

WithoutUnreadableFiles(tree) == SelectSeq(tree, LAMBDA e : e.dir \/ e.readable)

-----------------------------------------------------------------------------
(* C16: once the module-rename plan Old -> New has been executed to its
   end on a project whose module root was <Source>/Old, nothing is left at
   <Source>/Old, the directory <Source>/New exists and holds the build file
   New.Build.cs, and no Old.Build.cs is anywhere under <Source>/New. *)
C16_ModuleMoved ==
  (ModuleRenameDone /\ Last(ctx.mod_root) = hist.new) =>
    LET source == Front(ctx.mod_root)
        old_root == Append(source, hist.old)
        new_root == Append(source, hist.new)
    IN  /\ \A i \in 1..Len(fs) : ~Under(fs[i].path, old_root)
        /\ \E i \in 1..Len(fs) : fs[i].path = new_root /\ fs[i].dir
        /\ \E i \in 1..Len(fs) :
             /\ fs[i].path = Append(new_root, Append(hist.new, ".Build.cs"))
             /\ ~fs[i].dir
        /\ \A i \in 1..Len(fs) :
             Under(fs[i].path, new_root) =>
               Last(fs[i].path) # Append(hist.old, ".Build.cs")

C16_Witness ==
  /\ ModuleRenameDone
  /\ hist.old = <<"a">>
  /\ hist.new = <<"a", "b">>
  /\ \E i \in 1..Len(fs) :
       /\ fs[i].path = Append(Append(Front(ctx.mod_root), hist.new),
                              <<"a", "b", ".Build.cs">>)
       /\ Contains(fs[i].text, <<"a", "b">>)
  /\ \E i \in 1..Len(hist.before) :
       hist.before[i].path = Append(Append(Front(ctx.mod_root), hist.old),
                                    <<"a", ".Build.cs">>)

-----------------------------------------------------------------------------
(* C17: the redirect update, which both generators emit whether or not
   DefaultEngine.ini holds a redirect, raises no error when its pattern
   matches nothing: no execution stops at the redirect update or after it,
   so a first module rename and a first project rename of a project run to
   their end. *)
IsRedirectUpdate(c) ==
  /\ c.kind = "ReplaceInFile"
  /\ c.path = EngineIniPath(ctx.project_root)
  /\ c.pattern[1] \in {"(OldName=\"", "(OldGameName=\""}

RedirectCount(tree, root) ==
  Len(ValuesOf(Lookup(tree, EngineIniPath(root)).secs,
               "CoreRedirects", "+PackageRedirects"))
    + Len(ValuesOf(Lookup(tree, EngineIniPath(root)).secs,
                   "/Script/Engine.Engine", "+ActiveGameNameRedirects"))

-----------------------------------------------------------------------------
(* C18: after any sequence of executed module renames, one that returns to
   an earlier name included, DefaultEngine.ini holds no +PackageRedirects
   entry whose OldName and NewName are the same path. *)
IsSelfRedirect(value) ==
  \E n \in Names, sep \in {<<>>, <<" ">>} :
    value = <<"(OldName=\"", "/Script/">> \o n \o <<"\",">> \o sep
              \o <<"NewName=\"", "/Script/">> \o n \o <<"\")">>

PackageRedirects ==
  ValuesOf(Lookup(fs, EngineIniPath(ctx.project_root)).secs,
           "CoreRedirects", "+PackageRedirects")

C18_NoSelfRedirect ==
  (pc = "idle" /\ hist.modules >= 1) =>
    \A k \in 1..Len(PackageRedirects) : ~IsSelfRedirect(PackageRedirects[k])

-----------------------------------------------------------------------------
(* C19: once a project rename Old -> New has been executed, every
   game-name redirect DefaultEngine.ini held reads NewGameName="/Script/New"
   with the OldGameName it had, whatever its NewGameName was; the entry this
   rename appends comes after them, is not rewritten, and is the one entry
   with OldGameName="/Script/Old" that is added under
   [/Script/Engine.Engine]. *)
ProjectRenameDone == pc = "idle" /\ hist.kind = "project"

GameRedirectsOf(tree, root) ==
  ValuesOf(Lookup(tree, EngineIniPath(root)).secs,
           "/Script/Engine.Engine", "+ActiveGameNameRedirects")

(* The symbols of an entry between its opening and the quote and comma
   that close the OldGameName *)
OldGameNameOf(value) ==
  LET close == CHOOSE j \in 2..Len(value) :
                 value[j] = "\"," /\ \A k \in 2..(j - 1) : value[k] # "\","
  IN  SubSeq(value, 2, close - 1)

(* The symbols of an entry between NewGameName=" and its closing *)
NewGameNameOf(value) ==
  LET open == CHOOSE j \in 1..Len(value) : value[j] = "NewGameName=\""
  IN  SubSeq(value, open + 1, Len(value) - 1)

NamedOld(values, name) ==
  Cardinality({k \in 1..Len(values) : OldGameNameOf(values[k]) = name})

C19_GameRedirectsRetargeted ==
  ProjectRenameDone =>
    LET before == GameRedirectsOf(hist.before, hist.before[1].path)
        after == GameRedirectsOf(fs, ctx.project_root)
        old_path == <<"/Script/">> \o hist.old
        new_path == <<"/Script/">> \o hist.new
    IN  /\ Len(after) = Len(before) + 1
        /\ \A k \in 1..Len(before) :
             /\ OldGameNameOf(after[k]) = OldGameNameOf(before[k])
             /\ NewGameNameOf(after[k]) = new_path
        /\ after[Len(after)]
             = <<"(OldGameName=\"">> \o old_path
                 \o <<"\",", " ", "NewGameName=\"">> \o new_path \o <<"\")">>
        /\ NamedOld(after, old_path) = NamedOld(before, old_path) + 1

C19_Witness ==
  /\ ProjectRenameDone
  /\ hist.projects = 2
  /\ LET before == GameRedirectsOf(hist.before, hist.before[1].path)
     IN  /\ Len(before) = 2
         /\ NewGameNameOf(before[1]) = <<"/Script/", "b">>
         /\ OldGameNameOf(before[1]) = <<"x">>
         /\ NewGameNameOf(before[2]) = <<"/Script/", "b">>
  /\ hist.new = <<"a">>

====
